---- MODULE Spec2Model ----
(***************************************************************************)
(* Extension lifecycle of lnbits/extension_manager.py: the installer       *)
(* (download_archive, extract_archive, nofiy_upgrade,                       *)
(* clean_extension_files) and the request middleware                        *)
(* (InstalledExtensionMiddleware) over the process-wide settings lists.     *)
(*                                                                          *)
(* Strings are sequences of symbols: "/" is the separator symbol and every  *)
(* other symbol stands for a run of non-separator characters, so split,     *)
(* join, endswith and concatenation are computed as Python computes them.   *)
(***************************************************************************)
EXTENDS Naturals, Sequences, FiniteSets, TLC

VARIABLES
    upgraded,      \* settings.lnbits_upgraded_extensions: list of "hash/ext_id"
    deactivated,   \* settings.lnbits_deactivated_extensions: list of ext ids
    zipFile,       \* <data folder>/extensions/<id>.zip, per extension
    extDir,        \* lnbits/extensions/<id>, per extension
    upgDir,        \* lnbits/upgrades/<id>-<hash>, per extension and hash
    att,           \* the install attempt of each worker: position and inputs
    started,       \* number of install attempts started so far
    req,           \* the request the middleware handled last, with its outcome
    catalogs,      \* the manifests behind settings.lnbits_extensions_manifests, and GitHub
    answer,        \* the catalog call answered last, with its result
    registry,      \* the extension folders, their config.json, and the disabled and admin lists
    listing        \* the registry call answered last, with its result

vars ==
    <<upgraded, deactivated, zipFile, extDir, upgDir, att, started, req,
      catalogs, answer,
      registry, listing>>

----------------------------------------------------------------------------
(* Bounds of the model *)

\* path_elements of the enumerated request paths: every path of up to MaxSegs elements
MaxSegs == 3
\* elements after /<ext>/<type> in the longer enumerated request paths
MaxTail == 2
\* install attempts started in one behaviour
MaxAttempts == 2

----------------------------------------------------------------------------
(* Strings *)

SL == <<"/">>

StartsWith(s, pre) ==
    /\ Len(s) >= Len(pre)
    /\ SubSeq(s, 1, Len(pre)) = pre

\* str.endswith
EndsWith(s, suf) ==
    /\ Len(s) >= Len(suf)
    /\ SubSeq(s, Len(s) - Len(suf) + 1, Len(s)) = suf

\* index of the first separator of s, 0 when there is none
RECURSIVE FirstSep(_, _)
FirstSep(s, i) ==
    IF i > Len(s) THEN 0
    ELSE IF s[i] = "/" THEN i
    ELSE FirstSep(s, i + 1)

\* str.split("/"): never empty, "" gives [""]
RECURSIVE Split(_)
Split(s) ==
    LET k == FirstSep(s, 1) IN
    IF k = 0 THEN <<s>>
    ELSE <<SubSeq(s, 1, k - 1)>> \o Split(SubSeq(s, k + 1, Len(s)))

\* "/".join(parts)
RECURSIVE Join(_)
Join(parts) ==
    IF Len(parts) = 0 THEN <<>>
    ELSE IF Len(parts) = 1 THEN parts[1]
    ELSE parts[1] \o SL \o Join(Tail(parts))

\* all sequences over S of length lo..hi
SeqsOf(S, lo, hi) == UNION {[1..k -> S] : k \in lo..hi}

----------------------------------------------------------------------------
(* Identifiers, digests, releases *)

FOO == <<"foo">>
BAR == <<"bar">>
\* an identifier that ends with another identifier
MYFOO == <<"my", "foo">>

\* identifiers of the extensions requests are routed to
ExtIds == {FOO, BAR, MYFOO}

API == <<"api">>

\* archive contents served by the archive hosts, and archive URLs
Contents == {<<"c1">>, <<"c2">>}
Urls == {<<"u1">>}

\* hashlib.sha256(...).hexdigest(): a lowercase hex string, taken as collision-free
Sha256(data) ==
    CASE data = <<"c1">> -> <<"d1">>
      [] data = <<"c2">> -> <<"d2">>
      [] data = <<"u1">> -> <<"d3">>
      [] OTHER -> <<"d0">>

NoHash == <<>>

\* ExtensionRelease, as far as the installer reads it: archive URL and optional hash
Releases == [present : {TRUE}, archive : Urls, hash : {NoHash, <<"d1">>}]

\* installed_release = None
NoRelease == [present |-> FALSE, archive |-> <<>>, hash |-> NoHash]

NOT_INSTALLED == <<"not-installed">>

\* as HashOf, always derived from the archive URL
HashOf_UrlOnly(installed_release) ==
    IF installed_release.present
    THEN Sha256(installed_release.archive)
    ELSE NOT_INSTALLED

\* InstallableExtension.hash
HashOf(installed_release) ==
    IF installed_release.present
    THEN IF installed_release.hash # NoHash
         THEN installed_release.hash
         ELSE Sha256(installed_release.archive)
    ELSE NOT_INSTALLED

\* the hashes an extension can be addressed by
Hashes == {HashOf(r) : r \in Releases}

----------------------------------------------------------------------------
(* InstalledExtensionMiddleware *)

\* an ASGI scope: with a path, or without one
NoPathScope == [has |-> FALSE, path |-> <<>>]
PathScope(p) == [has |-> TRUE, path |-> p]

\* x in list
InList(x, list) == \E i \in 1..Len(list) : list[i] = x

\* as UpgradedFor, matching the identifier without the separator before it
UpgradedFor_NoSeparator(path_name, ups) ==
    SelectSeq(ups, LAMBDA ext : EndsWith(ext, path_name))

\* the entries of settings.lnbits_upgraded_extensions that end with "/<path_name>"
UpgradedFor(path_name, ups) ==
    SelectSeq(ups, LAMBDA ext : EndsWith(ext, SL \o path_name))

\* f"/upgrades/{upgrade_path}/{path_type}/{tail}"
UpgradePath(upgrade_path, path_type, rest) ==
    SL \o <<"upgrades">> \o SL \o upgrade_path \o SL \o path_type \o SL \o Join(rest)

\* as Middleware, rewriting whatever the path type is
Middleware_AnyType(scope, deact, ups) ==
    IF ~scope.has
    THEN [status |-> "forwarded", scope |-> scope, detail |-> <<>>]
    ELSE
      LET path_elements == Split(scope.path) IN
      IF Len(path_elements) < 2
      THEN [status |-> "error", scope |-> scope, detail |-> <<>>]
      ELSE
        LET path_name == path_elements[2]
            typed == Len(path_elements) > 2
            path_type == IF typed THEN path_elements[3] ELSE <<>>
            rest == IF typed THEN SubSeq(path_elements, 4, Len(path_elements)) ELSE <<>>
            upgraded_extensions == UpgradedFor(path_name, ups)
        IN
        IF InList(path_name, deact)
        THEN [status |-> "not_found", scope |-> scope,
              detail |-> <<"Extension '">> \o path_name \o <<"' disabled">>]
        ELSE IF Len(upgraded_extensions) # 0
        THEN [status |-> "forwarded",
              scope |-> PathScope(UpgradePath(upgraded_extensions[1], path_type, rest)),
              detail |-> <<>>]
        ELSE [status |-> "forwarded", scope |-> scope, detail |-> <<>>]

\* as Middleware, with the re-routing placed before the deactivated check
Middleware_RewriteFirst(scope, deact, ups) ==
    IF ~scope.has
    THEN [status |-> "forwarded", scope |-> scope, detail |-> <<>>]
    ELSE
      LET path_elements == Split(scope.path) IN
      IF Len(path_elements) < 2
      THEN [status |-> "error", scope |-> scope, detail |-> <<>>]
      ELSE
        LET path_name == path_elements[2]
            typed == Len(path_elements) > 2
            path_type == IF typed THEN path_elements[3] ELSE <<>>
            rest == IF typed THEN SubSeq(path_elements, 4, Len(path_elements)) ELSE <<>>
            upgraded_extensions == UpgradedFor(path_name, ups)
        IN
        IF typed /\ path_type = API /\ Len(upgraded_extensions) # 0
        THEN [status |-> "forwarded",
              scope |-> PathScope(UpgradePath(upgraded_extensions[1], path_type, rest)),
              detail |-> <<>>]
        ELSE IF InList(path_name, deact)
        THEN [status |-> "not_found", scope |-> scope,
              detail |-> <<"Extension '">> \o path_name \o <<"' disabled">>]
        ELSE [status |-> "forwarded", scope |-> scope, detail |-> <<>>]

\* InstalledExtensionMiddleware.__call__: what it does with the scope.
\* status "forwarded": self.app is awaited once with the scope given;
\* status "not_found": the 404 JSONResponse is sent and self.app is not called;
\* status "error": the unpacking at "_, path_name = path_elements" raises ValueError.
Middleware(scope, deact, ups) ==
    IF ~scope.has
    THEN [status |-> "forwarded", scope |-> scope, detail |-> <<>>]
    ELSE
      LET path_elements == Split(scope.path) IN
      IF Len(path_elements) < 2
      THEN [status |-> "error", scope |-> scope, detail |-> <<>>]
      ELSE
        LET path_name == path_elements[2]
            typed == Len(path_elements) > 2
            path_type == IF typed THEN path_elements[3] ELSE <<>>
            rest == IF typed THEN SubSeq(path_elements, 4, Len(path_elements)) ELSE <<>>
            upgraded_extensions == UpgradedFor(path_name, ups)
        IN
        IF InList(path_name, deact)
        THEN [status |-> "not_found", scope |-> scope,
              detail |-> <<"Extension '">> \o path_name \o <<"' disabled">>]
        ELSE IF typed /\ path_type = API /\ Len(upgraded_extensions) # 0
        THEN [status |-> "forwarded",
              scope |-> PathScope(UpgradePath(upgraded_extensions[1], path_type, rest)),
              detail |-> <<>>]
        ELSE [status |-> "forwarded", scope |-> scope, detail |-> <<>>]

\* no request handled since the routing lists last changed
NoReq == [handled |-> FALSE, scope |-> NoPathScope,
          resp |-> [status |-> "none", scope |-> NoPathScope, detail |-> <<>>]]

----------------------------------------------------------------------------
(* InstallableExtension.nofiy_upgrade *)

\* as NofiyUpgrade, keeping the entry the extension already has
NofiyUpgrade_KeepFirst(ups, id, hash) ==
    IF SelectSeq(ups, LAMBDA ext : EndsWith(ext, SL \o id)) # <<>>
    THEN ups
    ELSE Append(ups, hash \o SL \o id)

\* as NofiyUpgrade, appending without dropping the old entry
NofiyUpgrade_AppendOnly(ups, id, hash) ==
    IF hash = <<>>
    THEN ups
    ELSE ups \o <<hash \o SL \o id>>

\* as NofiyUpgrade, dropping the old entries that end with the identifier alone
NofiyUpgrade_NoSeparator(ups, id, hash) ==
    IF hash = <<>>
    THEN ups
    ELSE LET clean_upgraded_exts ==
               SelectSeq(ups, LAMBDA old_ext : ~EndsWith(old_ext, id))
         IN clean_upgraded_exts \o <<hash \o SL \o id>>

\* the new value of settings.lnbits_upgraded_extensions
NofiyUpgrade(ups, id, hash) ==
    IF hash = <<>>
    THEN ups
    ELSE LET clean_upgraded_exts ==
               SelectSeq(ups, LAMBDA old_ext : ~EndsWith(old_ext, SL \o id))
         IN clean_upgraded_exts \o <<hash \o SL \o id>>

\* the steps of nofiy_upgrade taken one by one

\* clean_upgraded_exts: the filtered copy, built in a new list
NofiyFilter(ups, id) ==
    SelectSeq(ups, LAMBDA old_ext : ~EndsWith(old_ext, SL \o id))

\* as AfterFilter, with the old entries removed from the settings list in place
AfterFilter_InPlace(ups, id) == NofiyFilter(ups, id)

\* settings.lnbits_upgraded_extensions once the filtered copy is built:
\* list(filter(...)) reads the list and leaves it as it is
AfterFilter(ups, id) == ups

\* the list assigned to settings.lnbits_upgraded_extensions
NofiyAssign(clean_upgraded_exts, id, hash) ==
    clean_upgraded_exts \o <<hash \o SL \o id>>

----------------------------------------------------------------------------
(* Files and directories *)

\* identifiers of the extensions the installer is asked to install
InstallIds == {FOO, BAR}

Workers == {"w1", "w2"}
\* installs run one after the other
SeqWorkers == {"w1"}

\* zip_path: absent, or a file with the bytes written to it
NoFile == [exists |-> FALSE, data |-> <<>>]
FileOf(data) == [exists |-> TRUE, data |-> data]

\* a directory tree: the archive content it was unpacked from (code), whether its
\* top-level directory still has the archive's name ("gen") or the extension's
\* ("id"), whether config.json records is_installed, whether the tree is complete
NoDir == [exists |-> FALSE, code |-> <<>>, top |-> "none", inst |-> FALSE, whole |-> FALSE]

\* the pre-bundled copy of an extension
Bundled == [exists |-> TRUE, code |-> <<"c0">>, top |-> "id", inst |-> FALSE, whole |-> TRUE]

\* ext_upgrade_dir: "<id>-<hash>" under lnbits/upgrades
ExtUpgradeDir(id, installed_release) == <<id, HashOf(installed_release)>>

UpgradeDirs == InstallIds \X Hashes

\* file_hash(filename)
FileHash(file) == Sha256(file.data)

\* what the archive host and the local disk do during download_url
FetchOutcomes == {"urlopen_fails", "read_fails", "ok"}

\* what the disk does during a step that writes a tree
IoOutcomes == {"ok", "fails_early", "fails_midway"}

\* as DownloadArchive, without the comparison with the declared hash
DownloadArchive_NoVerify(installed_release, fetch, data) ==
    LET written == CASE fetch = "urlopen_fails" -> NoFile
                     [] fetch = "read_fails" -> FileOf(<<>>)
                     [] OTHER -> FileOf(data)
    IN
    IF fetch # "ok"
    THEN [zip |-> written, err |-> "fetch"]
    ELSE [zip |-> written, err |-> "none"]

\* as DownloadArchive, leaving the archive in place when the hash does not match
DownloadArchive_KeepArchive(installed_release, fetch, data) ==
    LET written == CASE fetch = "urlopen_fails" -> NoFile
                     [] fetch = "read_fails" -> FileOf(<<>>)
                     [] OTHER -> FileOf(data)
    IN
    IF fetch # "ok"
    THEN [zip |-> written, err |-> "fetch"]
    ELSE IF installed_release.hash # NoHash /\ installed_release.hash # FileHash(written)
    THEN [zip |-> written, err |-> "integrity"]
    ELSE [zip |-> written, err |-> "none"]

\* as DownloadArchive, with the exception of download_url logged and not raised
DownloadArchive_SwallowFetch(installed_release, fetch, data) ==
    LET written == CASE fetch = "urlopen_fails" -> NoFile
                     [] fetch = "read_fails" -> FileOf(<<>>)
                     [] OTHER -> FileOf(data)
    IN
    IF fetch # "ok"
    THEN [zip |-> written, err |-> "none"]
    ELSE IF installed_release.hash # NoHash /\ installed_release.hash # FileHash(written)
    THEN [zip |-> NoFile, err |-> "integrity"]
    ELSE [zip |-> written, err |-> "none"]

\* download_archive: the archive file afterwards and the error raised.
\* fetch is the outcome of download_url, data the bytes the host serves.
DownloadArchive(installed_release, fetch, data) ==
    LET removed == NoFile
        written == CASE fetch = "urlopen_fails" -> removed
                     [] fetch = "read_fails" -> FileOf(<<>>)
                     [] OTHER -> FileOf(data)
    IN
    IF fetch # "ok"
    THEN [zip |-> written, err |-> "fetch"]
    ELSE IF installed_release.hash # NoHash /\ installed_release.hash # FileHash(written)
    THEN [zip |-> NoFile, err |-> "integrity"]
    ELSE [zip |-> written, err |-> "none"]

\* shutil.rmtree(path, True): the tree is removed (errors would be ignored, not raised)
RmTree(dir) == NoDir

\* zipfile.ZipFile(zip_path).extractall(ext_upgrade_dir)
ExtractAll(zip, dir, io) ==
    IF ~zip.exists \/ zip.data = <<>> \/ io = "fails_early"
    THEN [dir |-> dir, raised |-> TRUE]
    ELSE IF io = "fails_midway"
    THEN [dir |-> [exists |-> TRUE, code |-> zip.data, top |-> "gen",
                   inst |-> FALSE, whole |-> FALSE],
          raised |-> TRUE]
    ELSE [dir |-> [exists |-> TRUE, code |-> zip.data, top |-> "gen",
                   inst |-> FALSE, whole |-> TRUE],
          raised |-> FALSE]

\* os.rename(<upgrade dir>/<generated_dir_name>, <upgrade dir>/<id>)
RenameTop(dir, io) ==
    IF ~dir.exists \/ io # "ok"
    THEN [dir |-> dir, raised |-> TRUE]
    ELSE [dir |-> [dir EXCEPT !.top = "id"], raised |-> FALSE]

\* as MarkInstalled, with config.json rewritten without the is_installed key
MarkInstalled_NoFlag(dir, io) ==
    IF ~dir.exists \/ dir.top # "id" \/ io # "ok"
    THEN [dir |-> dir, raised |-> TRUE]
    ELSE [dir |-> dir, raised |-> FALSE]

\* open(<upgrade dir>/<id>/config.json, "r+"), config_json["is_installed"] = True
MarkInstalled(dir, io) ==
    IF ~dir.exists \/ dir.top # "id" \/ io # "ok"
    THEN [dir |-> dir, raised |-> TRUE]
    ELSE [dir |-> [dir EXCEPT !.inst = TRUE], raised |-> FALSE]

\* as CopyTree, with errors ignored as in the rmtree calls
CopyTree_IgnoreErrors(src, dst, io) ==
    IF ~src.exists \/ src.top # "id" \/ dst.exists \/ io = "fails_early"
    THEN [dir |-> dst, raised |-> FALSE]
    ELSE IF io = "fails_midway"
    THEN [dir |-> [src EXCEPT !.whole = FALSE, !.inst = FALSE], raised |-> FALSE]
    ELSE [dir |-> src, raised |-> FALSE]

\* shutil.copytree(<upgrade dir>/<id>, lnbits/extensions/<id>)
CopyTree(src, dst, io) ==
    IF ~src.exists \/ src.top # "id" \/ dst.exists \/ io = "fails_early"
    THEN [dir |-> dst, raised |-> TRUE]
    ELSE IF io = "fails_midway"
    THEN [dir |-> [src EXCEPT !.whole = FALSE, !.inst = FALSE], raised |-> TRUE]
    ELSE [dir |-> src, raised |-> FALSE]

\* has_installed_version
HasInstalledVersion(dir) == dir.exists /\ dir.inst

----------------------------------------------------------------------------
(* Install attempts *)

Idle == [pc |-> "idle", id |-> <<>>, rel |-> NoRelease, err |-> "none",
         fetch |-> "none", data |-> <<>>,
         snapZip |-> [i \in InstallIds |-> NoFile],
         snapExt |-> [i \in InstallIds |-> NoDir],
         snapUpg |-> [d \in UpgradeDirs |-> NoDir],
         snapUps |-> <<>>]

\* the worker's attempt moves to position pc
Goto(p, pc) == att' = [att EXCEPT ![p].pc = pc]

\* the step raised: the attempt ends with the error
Raise(p, err) == att' = [att EXCEPT ![p].pc = "failed", ![p].err = err]

\* the upgrade directory of the worker's attempt
MyUpg(p) == ExtUpgradeDir(att[p].id, att[p].rel)

\* An install request for extension id and release rel is accepted: the attempt
\* starts at the download step. The lists and trees as they are now are kept
\* for comparison when the attempt ends.
StartInstall(p, id, rel) ==
    /\ att[p].pc = "idle"
    /\ \A q \in Workers : att[q].pc = "idle"
    /\ started < MaxAttempts
    /\ started' = started + 1
    /\ att' = [att EXCEPT ![p] =
                 [pc |-> "download", id |-> id, rel |-> rel, err |-> "none",
                  fetch |-> "none", data |-> <<>>,
                  snapZip |-> zipFile, snapExt |-> extDir,
                  snapUpg |-> upgDir, snapUps |-> upgraded]]
    /\ UNCHANGED <<upgraded, deactivated, zipFile, extDir, upgDir, req>>
    /\ UNCHANGED <<catalogs, answer>>
    /\ UNCHANGED <<registry, listing>>

\* an install request is accepted while another install may be running: the
\* installer takes no lock
StartOverlapping(p, id, rel) ==
    /\ att[p].pc = "idle"
    /\ started < MaxAttempts
    /\ started' = started + 1
    /\ att' = [att EXCEPT ![p] =
                 [pc |-> "download", id |-> id, rel |-> rel, err |-> "none",
                  fetch |-> "none", data |-> <<>>,
                  snapZip |-> zipFile, snapExt |-> extDir,
                  snapUpg |-> upgDir, snapUps |-> upgraded]]
    /\ UNCHANGED <<upgraded, deactivated, zipFile, extDir, upgDir, req>>
    /\ UNCHANGED <<catalogs, answer>>
    /\ UNCHANGED <<registry, listing>>

\* step 1 and 2: download_archive
DownloadStep(p, fetch, data) ==
    /\ att[p].pc = "download"
    /\ LET r == DownloadArchive(att[p].rel, fetch, data) IN
       /\ zipFile' = [zipFile EXCEPT ![att[p].id] = r.zip]
       /\ att' = [att EXCEPT ![p].pc = IF r.err = "none" THEN "rmtree_upg" ELSE "failed",
                             ![p].err = r.err,
                             ![p].fetch = fetch,
                             ![p].data = IF fetch = "ok" THEN data ELSE <<>>]
    /\ UNCHANGED <<upgraded, deactivated, extDir, upgDir, started, req>>
    /\ UNCHANGED <<catalogs, answer>>
    /\ UNCHANGED <<registry, listing>>

\* step 3, extract_archive: makedirs and rmtree of the upgrade directory
RmTreeUpgStep(p) ==
    /\ att[p].pc = "rmtree_upg"
    /\ upgDir' = [upgDir EXCEPT ![MyUpg(p)] = RmTree(@)]
    /\ Goto(p, "extractall")
    /\ UNCHANGED <<upgraded, deactivated, zipFile, extDir, started, req>>
    /\ UNCHANGED <<catalogs, answer>>
    /\ UNCHANGED <<registry, listing>>

\* step 3, extract_archive: extractall into the upgrade directory
ExtractAllStep(p, io) ==
    /\ att[p].pc = "extractall"
    /\ LET r == ExtractAll(zipFile[att[p].id], upgDir[MyUpg(p)], io) IN
       /\ upgDir' = [upgDir EXCEPT ![MyUpg(p)] = r.dir]
       /\ IF r.raised THEN Raise(p, "extract") ELSE Goto(p, "rename")
    /\ UNCHANGED <<upgraded, deactivated, zipFile, extDir, started, req>>
    /\ UNCHANGED <<catalogs, answer>>
    /\ UNCHANGED <<registry, listing>>

\* step 3, extract_archive: the top-level directory is renamed to the identifier
RenameStep(p, io) ==
    /\ att[p].pc = "rename"
    /\ LET r == RenameTop(upgDir[MyUpg(p)], io) IN
       /\ upgDir' = [upgDir EXCEPT ![MyUpg(p)] = r.dir]
       /\ IF r.raised THEN Raise(p, "extract") ELSE Goto(p, "mark")
    /\ UNCHANGED <<upgraded, deactivated, zipFile, extDir, started, req>>
    /\ UNCHANGED <<catalogs, answer>>
    /\ UNCHANGED <<registry, listing>>

\* step 4, extract_archive: config.json is rewritten with is_installed
MarkStep(p, io) ==
    /\ att[p].pc = "mark"
    /\ LET r == MarkInstalled(upgDir[MyUpg(p)], io) IN
       /\ upgDir' = [upgDir EXCEPT ![MyUpg(p)] = r.dir]
       /\ IF r.raised THEN Raise(p, "mark") ELSE Goto(p, "rmtree_ext")
    /\ UNCHANGED <<upgraded, deactivated, zipFile, extDir, started, req>>
    /\ UNCHANGED <<catalogs, answer>>
    /\ UNCHANGED <<registry, listing>>

\* step 5, extract_archive: rmtree of the default location
RmTreeExtStep(p) ==
    /\ att[p].pc = "rmtree_ext"
    /\ extDir' = [extDir EXCEPT ![att[p].id] = RmTree(@)]
    /\ Goto(p, "copytree")
    /\ UNCHANGED <<upgraded, deactivated, zipFile, upgDir, started, req>>
    /\ UNCHANGED <<catalogs, answer>>
    /\ UNCHANGED <<registry, listing>>

\* step 5, extract_archive: copytree from the upgrade directory to the default location
CopyTreeStep(p, io) ==
    /\ att[p].pc = "copytree"
    /\ LET r == CopyTree(upgDir[MyUpg(p)], extDir[att[p].id], io) IN
       /\ extDir' = [extDir EXCEPT ![att[p].id] = r.dir]
       /\ IF r.raised THEN Raise(p, "publish") ELSE Goto(p, "nofiy")
    /\ UNCHANGED <<upgraded, deactivated, zipFile, upgDir, started, req>>
    /\ UNCHANGED <<catalogs, answer>>
    /\ UNCHANGED <<registry, listing>>

\* step 6: nofiy_upgrade
NofiyStep(p) ==
    /\ att[p].pc = "nofiy"
    /\ upgraded' = NofiyUpgrade(upgraded, att[p].id, HashOf(att[p].rel))
    /\ req' = NoReq
    /\ Goto(p, "done")
    /\ UNCHANGED <<deactivated, zipFile, extDir, upgDir, started>>
    /\ UNCHANGED <<catalogs, answer>>
    /\ UNCHANGED <<registry, listing>>

\* the attempt has ended and its outcome was returned to the caller
FinishInstall(p) ==
    /\ att[p].pc \in {"done", "failed"}
    /\ att' = [att EXCEPT ![p] = Idle]
    /\ UNCHANGED <<upgraded, deactivated, zipFile, extDir, upgDir, started, req>>
    /\ UNCHANGED <<catalogs, answer>>
    /\ UNCHANGED <<registry, listing>>

\* as CleanExtensionFiles, also dropping the extension from the upgraded list
CleanExtensionFiles_Unregister(id, rel) ==
    /\ \A q \in Workers : att[q].pc = "idle"
    /\ zipFile' = [zipFile EXCEPT ![id] = NoFile]
    /\ extDir' = [extDir EXCEPT ![id] = RmTree(@)]
    /\ upgDir' = [upgDir EXCEPT ![ExtUpgradeDir(id, rel)] = RmTree(@)]
    /\ upgraded' = SelectSeq(upgraded, LAMBDA e : ~EndsWith(e, SL \o id))
    /\ req' = NoReq
    /\ UNCHANGED <<deactivated, att, started>>
    /\ UNCHANGED <<catalogs, answer>>
    /\ UNCHANGED <<registry, listing>>

\* uninstall: clean_extension_files of the extension with that installed release
CleanExtensionFiles(id, rel) ==
    /\ \A q \in Workers : att[q].pc = "idle"
    /\ zipFile' = [zipFile EXCEPT ![id] = NoFile]
    /\ extDir' = [extDir EXCEPT ![id] = RmTree(@)]
    /\ upgDir' = [upgDir EXCEPT ![ExtUpgradeDir(id, rel)] = RmTree(@)]
    /\ UNCHANGED <<upgraded, deactivated, att, started, req>>
    /\ UNCHANGED <<catalogs, answer>>
    /\ UNCHANGED <<registry, listing>>

\* nofiy_upgrade called on an extension object by itself, between two requests
RegisterUpgrade(id, rel) ==
    /\ ~req.handled
    /\ upgraded' = NofiyUpgrade(upgraded, id, HashOf(rel))
    /\ UNCHANGED <<deactivated, zipFile, extDir, upgDir, att, started, req>>
    /\ UNCHANGED <<catalogs, answer>>
    /\ UNCHANGED <<registry, listing>>

\* nofiy_upgrade is called for extension id while requests and other calls may
\* run: the hash is computed and the filtered copy is built from the list as it
\* is read now; the list read stays in the call's frame
NofiyFilterStep(p, id, rel) ==
    /\ att[p].pc = "idle"
    /\ ~req.handled
    /\ started < MaxAttempts
    /\ started' = started + 1
    /\ att' = [att EXCEPT ![p] =
                 [Idle EXCEPT !.pc = IF HashOf(rel) = <<>> THEN "done" ELSE "filtered",
                              !.id = id, !.rel = rel, !.snapUps = upgraded]]
    /\ upgraded' = AfterFilter(upgraded, id)
    /\ UNCHANGED <<deactivated, zipFile, extDir, upgDir, req>>
    /\ UNCHANGED <<catalogs, answer>>
    /\ UNCHANGED <<registry, listing>>

\* the assignment that ends nofiy_upgrade: the filtered copy with the new entry
\* replaces the settings list
NofiyAssignStep(p) ==
    /\ att[p].pc = "filtered"
    /\ upgraded' = NofiyAssign(NofiyFilter(att[p].snapUps, att[p].id),
                               att[p].id, HashOf(att[p].rel))
    /\ Goto(p, "done")
    /\ UNCHANGED <<deactivated, zipFile, extDir, upgDir, started, req>>
    /\ UNCHANGED <<catalogs, answer>>
    /\ UNCHANGED <<registry, listing>>

\* the middleware is called with a scope; requests are handled one at a time
HandleRequest(scope) ==
    /\ ~req.handled
    /\ req' = [handled |-> TRUE, scope |-> scope,
               resp |-> Middleware(scope, deactivated, upgraded)]
    /\ UNCHANGED <<upgraded, deactivated, zipFile, extDir, upgDir, att, started>>
    /\ UNCHANGED <<catalogs, answer>>
    /\ UNCHANGED <<registry, listing>>

\* the outcome of the handled request has been delivered
Deliver ==
    /\ req.handled
    /\ req' = NoReq
    /\ UNCHANGED <<upgraded, deactivated, zipFile, extDir, upgDir, att, started>>
    /\ UNCHANGED <<catalogs, answer>>
    /\ UNCHANGED <<registry, listing>>

----------------------------------------------------------------------------
(* Catalogs: get_installable_extensions, get_extension_releases and
   get_extension_release over the configured manifests *)

\* manifests configured, and "extensions" entries held by them all together
MaxManifests == 2
MaxEntries == 2

\* the URLs of settings.lnbits_extensions_manifests, in order
ManifestUrls == << <<"m1">>, <<"m2">>, <<"m3">>, <<"m4">> >>

\* the GitHub repository the "repos" entries refer to
ORG == <<"org">>
REPO == <<"repo">>

\* api.github.com answers every call for the repository, or none
GithubStates == {"ok", "down"}

\* the release list GitHub returns for the repository, newest first
GithubReleases == << [zipball_url |-> <<"z2">>], [zipball_url |-> <<"z1">>] >>

\* repo["html_url"] of the repository
HtmlUrl(org, repo) == <<"https:", "/", "/", "github.com", "/">> \o org \o SL \o repo

\* an ExtensionRelease, and None where one is optional
ExtensionRelease(archive, source_repo, hash) ==
    [present |-> TRUE, archive |-> archive, source_repo |-> source_repo, hash |-> hash]

NoExtensionRelease ==
    [present |-> FALSE, archive |-> <<>>, source_repo |-> <<>>, hash |-> <<>>]

\* ExtensionRelease.from_github_release: no hash is set
FromGithubRelease(source_repo, r) == ExtensionRelease(r.zipball_url, source_repo, <<>>)

\* ExtensionRelease.all_releases: [] when the fetch raises
AllReleases(github, org, repo) ==
    IF github = "ok"
    THEN [i \in 1..Len(GithubReleases) |->
              FromGithubRelease(org \o SL \o repo, GithubReleases[i])]
    ELSE <<>>

\* an InstallableExtension of the catalogs, and None
NoInstallable ==
    [present |-> FALSE, id |-> <<>>, name |-> <<>>, latest_release |-> NoExtensionRelease]

\* as FromRepo, with the "org/repo" form of the source
FromRepo_OrgRepo(github, ext_id, org, repo) ==
    IF github = "ok"
    THEN [present |-> TRUE, id |-> ext_id, name |-> <<"config-name">>,
          latest_release |-> FromGithubRelease(org \o SL \o repo, GithubReleases[1])]
    ELSE NoInstallable

\* InstallableExtension.from_repo: None when fetch_github_repo_info raises
FromRepo(github, ext_id, org, repo) ==
    IF github = "ok"
    THEN [present |-> TRUE, id |-> ext_id, name |-> <<"config-name">>,
          latest_release |-> FromGithubRelease(HtmlUrl(org, repo), GithubReleases[1])]
    ELSE NoInstallable

\* the keys of a complete "extensions" entry
EntryKeys == {"id", "name", "shortDescription", "icon", "archive", "hash", "version"}

\* the "extensions" entries a manifest can hold: complete ones, one without
\* "name" and one without "version"
EntryKinds ==
    { [id |-> FOO, keys |-> EntryKeys],
      [id |-> BAR, keys |-> EntryKeys],
      [id |-> BAR, keys |-> EntryKeys \ {"name"}],
      [id |-> FOO, keys |-> EntryKeys \ {"version"}] }

\* the dict e of an entry of that kind in the manifest at url
ExtensionEntry(url, kind) ==
    [id |-> kind.id, keys |-> kind.keys, name |-> <<"name-in-">> \o url,
     archive |-> <<"archive-of-">> \o kind.id, hash |-> <<>>]

\* the "repos" entries a manifest can hold
RepoEntries == {[id |-> FOO, organisation |-> ORG, repository |-> REPO]}

\* what the fetch of a manifest gives: an exception, or a document
FailedDoc == [ok |-> FALSE, repos |-> <<>>, extensions |-> <<>>]

\* the documents with at most n "extensions" entries
DocsUpTo(n) ==
    {FailedDoc} \cup
    [ok : {TRUE}, repos : SeqsOf(RepoEntries, 0, 1),
     extensions : SeqsOf(EntryKinds, 0, n)]

\* the lists of k documents with at most n "extensions" entries between them
RECURSIVE DocLists(_, _)
DocLists(k, n) ==
    IF k = 0
    THEN {<<>>}
    ELSE UNION {{<<d>> \o rest : rest \in DocLists(k - 1, n - Len(d.extensions))} :
                   d \in DocsUpTo(n)}

\* up to MaxManifests manifests holding up to MaxEntries "extensions" entries
\* between them, and either state of GitHub
Catalogs ==
    [docs : UNION {DocLists(k, MaxEntries) : k \in 0..MaxManifests},
     github : GithubStates]

NoCatalogs == [docs |-> <<>>, github |-> "ok"]

\* from_manifest raises KeyError when one of the keys it reads is missing
FromManifestRaises(e) ==
    ~({"id", "name", "archive", "hash", "shortDescription", "icon"} \subseteq e.keys)

\* InstallableExtension.from_manifest
FromManifest(e) ==
    [present |-> TRUE, id |-> e.id, name |-> e.name, latest_release |-> NoExtensionRelease]

NoneFound == [extension_list |-> <<>>, extension_id_list |-> <<>>]

Found(acc, ext) ==
    [extension_list |-> Append(acc.extension_list, ext),
     extension_id_list |-> Append(acc.extension_id_list, ext.id)]

\* the loop over manifest["repos"], from entry i on
RECURSIVE ReposLoop(_, _, _, _)
ReposLoop(github, repos, i, acc) ==
    IF i > Len(repos)
    THEN acc
    ELSE LET r == repos[i]
             ext == FromRepo(github, r.id, r.organisation, r.repository)
         IN IF InList(r.id, acc.extension_id_list)
            THEN ReposLoop(github, repos, i + 1, acc)
            ELSE IF ext.present
                 THEN ReposLoop(github, repos, i + 1, Found(acc, ext))
                 ELSE ReposLoop(github, repos, i + 1, acc)

\* as ExtensionsLoop, replacing the entry kept for an identifier
RECURSIVE ExtensionsLoop_LastWins(_, _, _, _)
ExtensionsLoop_LastWins(url, extensions, i, acc) ==
    IF i > Len(extensions)
    THEN acc
    ELSE LET e == ExtensionEntry(url, extensions[i])
             others == [extension_list |->
                            SelectSeq(acc.extension_list, LAMBDA x : x.id # e.id),
                        extension_id_list |->
                            SelectSeq(acc.extension_id_list, LAMBDA x : x # e.id)]
         IN IF FromManifestRaises(e)
            THEN acc
            ELSE ExtensionsLoop_LastWins(url, extensions, i + 1,
                                         Found(others, FromManifest(e)))

\* as ExtensionsLoop, dropping what the manifest gave when an entry raises
RECURSIVE ExtensionsLoop_DropAll(_, _, _, _)
ExtensionsLoop_DropAll(url, extensions, i, acc) ==
    IF i > Len(extensions)
    THEN acc
    ELSE LET e == ExtensionEntry(url, extensions[i])
         IN IF InList(e.id, acc.extension_id_list)
            THEN ExtensionsLoop_DropAll(url, extensions, i + 1, acc)
            ELSE IF FromManifestRaises(e)
                 THEN NoneFound
                 ELSE ExtensionsLoop_DropAll(url, extensions, i + 1,
                                             Found(acc, FromManifest(e)))

\* the loop over manifest["extensions"], from entry i on; an exception ends the
\* manifest and keeps what was found
RECURSIVE ExtensionsLoop(_, _, _, _)
ExtensionsLoop(url, extensions, i, acc) ==
    IF i > Len(extensions)
    THEN acc
    ELSE LET e == ExtensionEntry(url, extensions[i])
         IN IF InList(e.id, acc.extension_id_list)
            THEN ExtensionsLoop(url, extensions, i + 1, acc)
            ELSE IF FromManifestRaises(e)
                 THEN acc
                 ELSE ExtensionsLoop(url, extensions, i + 1, Found(acc, FromManifest(e)))

\* the loop over settings.lnbits_extensions_manifests, from manifest i on
RECURSIVE ManifestsLoop(_, _, _)
ManifestsLoop(cat, i, acc) ==
    IF i > Len(cat.docs)
    THEN acc
    ELSE LET manifest == cat.docs[i]
         IN ManifestsLoop(cat, i + 1,
                IF ~manifest.ok
                THEN acc
                ELSE ExtensionsLoop(ManifestUrls[i], manifest.extensions, 1,
                         ReposLoop(cat.github, manifest.repos, 1, acc)))

\* InstallableExtension.get_installable_extensions
GetInstallableExtensions(cat) == ManifestsLoop(cat, 1, NoneFound).extension_list

\* the ExtensionRelease built from an "extensions" entry raises KeyError when one
\* of the keys it reads is missing
ReleaseRaises(e) ==
    ~({"name", "version", "archive", "hash", "shortDescription"} \subseteq e.keys)

\* the releases of the "repos" entries of one manifest for ext_id
RECURSIVE RepoReleases(_, _, _, _, _)
RepoReleases(github, repos, i, ext_id, extension_releases) ==
    IF i > Len(repos)
    THEN extension_releases
    ELSE LET r == repos[i]
         IN RepoReleases(github, repos, i + 1, ext_id,
                IF r.id = ext_id
                THEN extension_releases \o AllReleases(github, r.organisation, r.repository)
                ELSE extension_releases)

\* the releases of the "extensions" entries of one manifest for ext_id; an
\* exception ends the manifest and keeps what was found
RECURSIVE EntryReleases(_, _, _, _, _)
EntryReleases(url, extensions, i, ext_id, extension_releases) ==
    IF i > Len(extensions)
    THEN extension_releases
    ELSE LET e == ExtensionEntry(url, extensions[i])
         IN IF e.id # ext_id
            THEN EntryReleases(url, extensions, i + 1, ext_id, extension_releases)
            ELSE IF ReleaseRaises(e)
                 THEN extension_releases
                 ELSE EntryReleases(url, extensions, i + 1, ext_id,
                          Append(extension_releases,
                                 ExtensionRelease(e.archive, url, e.hash)))

RECURSIVE ManifestsReleases(_, _, _, _)
ManifestsReleases(cat, i, ext_id, extension_releases) ==
    IF i > Len(cat.docs)
    THEN extension_releases
    ELSE LET manifest == cat.docs[i]
         IN ManifestsReleases(cat, i + 1, ext_id,
                IF ~manifest.ok
                THEN extension_releases
                ELSE EntryReleases(ManifestUrls[i], manifest.extensions, 1, ext_id,
                         RepoReleases(cat.github, manifest.repos, 1, ext_id,
                                      extension_releases)))

\* InstallableExtension.get_extension_releases
GetExtensionReleases(cat, ext_id) == ManifestsReleases(cat, 1, ext_id, <<>>)

\* as GetExtensionRelease, matching the archive alone
GetExtensionRelease_AnySource(cat, ext_id, source_repo, archive) ==
    LET all_releases == GetExtensionReleases(cat, ext_id)
        selected_release == SelectSeq(all_releases, LAMBDA r : r.archive = archive)
    IN IF Len(selected_release) # 0 THEN selected_release[1] ELSE NoExtensionRelease

\* InstallableExtension.get_extension_release
GetExtensionRelease(cat, ext_id, source_repo, archive) ==
    LET all_releases == GetExtensionReleases(cat, ext_id)
        selected_release ==
            SelectSeq(all_releases,
                      LAMBDA r : r.archive = archive /\ r.source_repo = source_repo)
    IN IF Len(selected_release) # 0 THEN selected_release[1] ELSE NoExtensionRelease

\* the sources and archives a caller asks get_extension_release about
QuerySources == {ManifestUrls[1], ManifestUrls[2], ORG \o SL \o REPO, HtmlUrl(ORG, REPO)}
QueryArchives == {<<"archive-of-">> \o FOO, <<"archive-of-">> \o BAR, <<"z2">>}

NoAnswer ==
    [op |-> "none", ext_id |-> <<>>, source_repo |-> <<>>, archive |-> <<>>,
     extensions |-> <<>>, releases |-> <<>>, release |-> NoExtensionRelease]

\* one call of get_installable_extensions
CallGetInstallableExtensions ==
    /\ answer.op = "none"
    /\ answer' = [NoAnswer EXCEPT !.op = "get_installable_extensions",
                                  !.extensions = GetInstallableExtensions(catalogs)]
    /\ UNCHANGED <<upgraded, deactivated, zipFile, extDir, upgDir, att, started, req>>
    /\ UNCHANGED <<catalogs>>
    /\ UNCHANGED <<registry, listing>>

\* one call of get_extension_releases
CallGetExtensionReleases(ext_id) ==
    /\ answer.op = "none"
    /\ answer' = [NoAnswer EXCEPT !.op = "get_extension_releases",
                                  !.ext_id = ext_id,
                                  !.releases = GetExtensionReleases(catalogs, ext_id)]
    /\ UNCHANGED <<upgraded, deactivated, zipFile, extDir, upgDir, att, started, req>>
    /\ UNCHANGED <<catalogs>>
    /\ UNCHANGED <<registry, listing>>

\* one call of get_extension_release
CallGetExtensionRelease(ext_id, source_repo, archive) ==
    /\ answer.op = "none"
    /\ answer' = [NoAnswer EXCEPT !.op = "get_extension_release",
                                  !.ext_id = ext_id,
                                  !.source_repo = source_repo,
                                  !.archive = archive,
                                  !.release = GetExtensionRelease(catalogs, ext_id,
                                                                  source_repo, archive)]
    /\ UNCHANGED <<upgraded, deactivated, zipFile, extDir, upgDir, att, started, req>>
    /\ UNCHANGED <<catalogs>>
    /\ UNCHANGED <<registry, listing>>

\* the caller has its result
ReturnAnswer ==
    /\ answer.op # "none"
    /\ answer' = NoAnswer
    /\ UNCHANGED <<upgraded, deactivated, zipFile, extDir, upgDir, att, started, req>>
    /\ UNCHANGED <<catalogs>>
    /\ UNCHANGED <<registry, listing>>

----------------------------------------------------------------------------
(* Registry: ExtensionManager.extensions and get_valid_extensions *)

\* the sentinel of settings.lnbits_disabled_extensions
ALL == <<"all">>

\* config.json of a folder: a JSON object, a file that is missing or does not
\* parse, or JSON that parses to something other than an object
ConfigKinds == {"object", "unreadable", "not_object"}

RECURSIVE OrdersOf(_)
OrdersOf(S) ==
    IF S = {}
    THEN {<<>>}
    ELSE UNION {{<<x>> \o p : p \in OrdersOf(S \ {x})} : x \in S}

\* the order os.walk gives the folders in is the file system's
FolderLists == UNION {OrdersOf(S) : S \in SUBSET ExtIds}

DisabledLists == {<<>>, <<FOO>>, <<BAR>>, <<ALL>>, <<FOO, ALL>>, <<FOO, BAR>>}
AdminLists == {<<>>, <<FOO>>, <<BAR>>, <<FOO, BAR>>}

Registries ==
    [folders : FolderLists, disabled : DisabledLists, admin_only : AdminLists,
     config : [ExtIds -> ConfigKinds]]

NoRegistry ==
    [folders |-> <<>>, disabled |-> <<>>, admin_only |-> <<>>,
     config |-> [x \in ExtIds |-> "object"]]

\* what a call gives: the list returned, or an exception
Returned(output) == [raised |-> FALSE, output |-> output]
Raised == [raised |-> TRUE, output |-> <<>>]

\* the loop of the extensions property over the folders that are not disabled,
\* from folder i on: json.load failing is caught, config.get of a value that is
\* not a dict raises AttributeError outside the try
RECURSIVE FoldersLoop(_, _, _, _)
FoldersLoop(reg, folders, i, output) ==
    IF i > Len(folders)
    THEN Returned(output)
    ELSE LET extension == folders[i]
             loaded == reg.config[extension] # "unreadable"
             is_valid == loaded
             is_admin_only == loaded /\ InList(extension, reg.admin_only)
         IN IF reg.config[extension] = "not_object"
            THEN Raised
            ELSE FoldersLoop(reg, folders, i + 1,
                     Append(output, [code |-> extension, is_valid |-> is_valid,
                                     is_admin_only |-> is_admin_only]))

\* as Extensions, without the "all" sentinel
Extensions_NoSentinel(reg) ==
    FoldersLoop(reg, SelectSeq(reg.folders, LAMBDA ext : ~InList(ext, reg.disabled)),
                1, <<>>)

\* ExtensionManager.extensions
Extensions(reg) ==
    IF InList(ALL, reg.disabled)
    THEN Returned(<<>>)
    ELSE FoldersLoop(reg, SelectSeq(reg.folders, LAMBDA ext : ~InList(ext, reg.disabled)),
                     1, <<>>)

\* get_valid_extensions
GetValidExtensions(reg) ==
    LET extensions == Extensions(reg)
    IN IF extensions.raised
       THEN Raised
       ELSE Returned(SelectSeq(extensions.output, LAMBDA extension : extension.is_valid))

NoListing == [op |-> "none", raised |-> FALSE, output |-> <<>>]

\* one read of ExtensionManager().extensions
CallExtensions ==
    /\ listing.op = "none"
    /\ listing' = [op |-> "extensions", raised |-> Extensions(registry).raised,
                   output |-> Extensions(registry).output]
    /\ UNCHANGED <<upgraded, deactivated, zipFile, extDir, upgDir, att, started, req>>
    /\ UNCHANGED <<catalogs, answer>>
    /\ UNCHANGED <<registry>>

\* one call of get_valid_extensions
CallGetValidExtensions ==
    /\ listing.op = "none"
    /\ listing' = [op |-> "get_valid_extensions",
                   raised |-> GetValidExtensions(registry).raised,
                   output |-> GetValidExtensions(registry).output]
    /\ UNCHANGED <<upgraded, deactivated, zipFile, extDir, upgDir, att, started, req>>
    /\ UNCHANGED <<catalogs, answer>>
    /\ UNCHANGED <<registry>>

\* the caller has its list
ReturnListing ==
    /\ listing.op # "none"
    /\ listing' = NoListing
    /\ UNCHANGED <<upgraded, deactivated, zipFile, extDir, upgDir, att, started, req>>
    /\ UNCHANGED <<catalogs, answer>>
    /\ UNCHANGED <<registry>>

----------------------------------------------------------------------------
(* Requests, initial states, specifications *)

V1 == <<"v1">>

\* elements the enumerated request paths are made of ("" included)
Segments == {<<>>, FOO, BAR, MYFOO, API}
TailSegments == {<<>>, V1, BAR}

\* every path of 1..MaxSegs elements: "", "/", "foo", "/foo", "/foo/api", "v1/foo/api", ...
ShortPaths == {Join(segs) : segs \in SeqsOf(Segments, 1, MaxSegs)}

\* "/<ext>/<type>/<tail>" with a tail of 1..MaxTail elements
LongPaths ==
    {Join(<<<<>>, x, t>> \o tail) :
        x \in ExtIds, t \in {API, V1}, tail \in SeqsOf(TailSegments, 1, MaxTail)}

RouterScopes == {NoPathScope} \cup {PathScope(path) : path \in ShortPaths \cup LongPaths}

\* the requests made while installs are running: api calls to the installed extensions
LifecycleScopes == {PathScope(Join(<<<<>>, x, API, V1>>)) : x \in InstallIds}

\* the process has started: nothing downloaded or upgraded yet, foo is pre-bundled
Init ==
    /\ upgraded = <<>>
    /\ deactivated \in {<<>>, <<BAR>>}
    /\ zipFile = [i \in InstallIds |-> NoFile]
    /\ extDir = [i \in InstallIds |-> IF i = FOO THEN Bundled ELSE NoDir]
    /\ upgDir = [d \in UpgradeDirs |-> NoDir]
    /\ att = [p \in Workers |-> Idle]
    /\ started = 0
    /\ req = NoReq
    /\ catalogs = NoCatalogs
    /\ answer = NoAnswer
    /\ registry = NoRegistry
    /\ listing = NoListing

InstallNext(p) ==
    \/ \E id \in InstallIds, rel \in Releases : StartInstall(p, id, rel)
    \/ \E fetch \in FetchOutcomes, data \in Contents : DownloadStep(p, fetch, data)
    \/ RmTreeUpgStep(p)
    \/ \E io \in IoOutcomes : ExtractAllStep(p, io)
    \/ \E io \in IoOutcomes : RenameStep(p, io)
    \/ \E io \in IoOutcomes : MarkStep(p, io)
    \/ RmTreeExtStep(p)
    \/ \E io \in IoOutcomes : CopyTreeStep(p, io)
    \/ NofiyStep(p)
    \/ FinishInstall(p)

Next ==
    \/ \E p \in SeqWorkers : InstallNext(p)
    \/ \E id \in InstallIds, rel \in Releases : CleanExtensionFiles(id, rel)
    \/ \E scope \in LifecycleScopes : HandleRequest(scope)
    \/ Deliver

\* installs, uninstalls and requests, one install at a time
Spec == Init /\ [][Next]_vars

\* the routing lists of a started process, with any deactivated list
InitRouter ==
    /\ upgraded = <<>>
    /\ deactivated \in {<<>>, <<BAR>>, <<FOO>>, <<FOO, BAR>>}
    /\ zipFile = [i \in InstallIds |-> NoFile]
    /\ extDir = [i \in InstallIds |-> IF i = FOO THEN Bundled ELSE NoDir]
    /\ upgDir = [d \in UpgradeDirs |-> NoDir]
    /\ att = [p \in Workers |-> Idle]
    /\ started = 0
    /\ req = NoReq
    /\ catalogs = NoCatalogs
    /\ answer = NoAnswer
    /\ registry = NoRegistry
    /\ listing = NoListing

NextRouter ==
    \/ \E id \in ExtIds, rel \in Releases \cup {NoRelease} : RegisterUpgrade(id, rel)
    \/ \E scope \in RouterScopes : HandleRequest(scope)
    \/ Deliver

\* the middleware under every enumerated request, between upgrade registrations
SpecRouter == InitRouter /\ [][NextRouter]_vars

\* any manifests and either state of GitHub, nothing installed
InitCatalog ==
    /\ upgraded = <<>>
    /\ deactivated = <<>>
    /\ zipFile = [i \in InstallIds |-> NoFile]
    /\ extDir = [i \in InstallIds |-> IF i = FOO THEN Bundled ELSE NoDir]
    /\ upgDir = [d \in UpgradeDirs |-> NoDir]
    /\ att = [p \in Workers |-> Idle]
    /\ started = 0
    /\ req = NoReq
    /\ catalogs \in Catalogs
    /\ answer = NoAnswer
    /\ registry = NoRegistry
    /\ listing = NoListing

NextCatalog ==
    \/ CallGetInstallableExtensions
    \/ \E ext_id \in InstallIds : CallGetExtensionReleases(ext_id)
    \/ \E ext_id \in InstallIds, source_repo \in QuerySources, archive \in QueryArchives :
          CallGetExtensionRelease(ext_id, source_repo, archive)
    \/ ReturnAnswer

\* the catalog calls over every enumerated set of manifests
SpecCatalog == InitCatalog /\ [][NextCatalog]_vars

\* the steps of one worker when installs may overlap
OverlappingNext(p) ==
    \/ \E id \in InstallIds, rel \in Releases : StartOverlapping(p, id, rel)
    \/ \E fetch \in FetchOutcomes, data \in Contents : DownloadStep(p, fetch, data)
    \/ RmTreeUpgStep(p)
    \/ \E io \in IoOutcomes : ExtractAllStep(p, io)
    \/ \E io \in IoOutcomes : RenameStep(p, io)
    \/ \E io \in IoOutcomes : MarkStep(p, io)
    \/ RmTreeExtStep(p)
    \/ \E io \in IoOutcomes : CopyTreeStep(p, io)
    \/ NofiyStep(p)
    \/ FinishInstall(p)

NextOverlapping == \E p \in Workers : OverlappingNext(p)

\* installs by two workers whose steps interleave
SpecOverlapping == Init /\ [][NextOverlapping]_vars

\* any folders, config files and lists, nothing installed
InitRegistry ==
    /\ upgraded = <<>>
    /\ deactivated = <<>>
    /\ zipFile = [i \in InstallIds |-> NoFile]
    /\ extDir = [i \in InstallIds |-> IF i = FOO THEN Bundled ELSE NoDir]
    /\ upgDir = [d \in UpgradeDirs |-> NoDir]
    /\ att = [p \in Workers |-> Idle]
    /\ started = 0
    /\ req = NoReq
    /\ catalogs = NoCatalogs
    /\ answer = NoAnswer
    /\ registry \in Registries
    /\ listing = NoListing

NextRegistry ==
    \/ CallExtensions
    \/ CallGetValidExtensions
    \/ ReturnListing

\* the registry calls over every enumerated set of folders
SpecRegistry == InitRegistry /\ [][NextRegistry]_vars

\* a nofiy_upgrade call, step by step
NofiyNext(p) ==
    \/ \E id \in InstallIds, rel \in Releases \cup {NoRelease} : NofiyFilterStep(p, id, rel)
    \/ NofiyAssignStep(p)
    \/ FinishInstall(p)

NextSwap ==
    \/ \E p \in SeqWorkers : NofiyNext(p)
    \/ \E scope \in LifecycleScopes : HandleRequest(scope)
    \/ Deliver

\* one nofiy_upgrade call at a time, with requests handled between its steps
SpecSwap == Init /\ [][NextSwap]_vars

NextRacing == \E p \in Workers : NofiyNext(p)

\* nofiy_upgrade calls of two workers whose steps interleave
SpecRacing == Init /\ [][NextRacing]_vars

----------------------------------------------------------------------------
(* Properties of the middleware and of the upgraded list *)

\* the hash part an entry of the upgraded list can have
EntryHashes == Hashes \cup {NOT_INSTALLED}

\* the entry "hash/id"
Entry(hash, id) == hash \o SL \o id

IsEntryFor(entry, id) == \E h \in EntryHashes : entry = Entry(h, id)

\* the entries of a list that belong to other extensions than id, in order
OthersOf(list, id) == SelectSeq(list, LAMBDA e : ~IsEntryFor(e, id))

\* the request handled last had a path, and path_elements gives it a name element
Named == req.handled /\ req.scope.has /\ Len(Split(req.scope.path)) >= 2

\* C1: a request for /X/api/<tail>, X not deactivated, with H/X in the upgraded
\* list, is forwarded with the path /upgrades/H/X/api/<tail>: the original path
\* behind "/upgrades/H", so every element after the name is kept in order.
C1_ApiRewritten ==
    \A x \in ExtIds, h \in EntryHashes :
        ( /\ req.handled /\ req.scope.has
          /\ StartsWith(req.scope.path, SL \o x \o SL \o API \o SL)
          /\ ~InList(x, deactivated)
          /\ InList(Entry(h, x), upgraded) )
        => /\ req.resp.status = "forwarded"
           /\ req.resp.scope =
                PathScope(<<"/", "upgrades", "/">> \o h \o req.scope.path)

C1_Witness ==
    /\ req.handled
    /\ req.scope = PathScope(<<"/", "foo", "/", "api", "/", "v1", "/", "bar">>)
    /\ InList(<<"d1", "/", "my", "foo">>, upgraded)
    /\ InList(<<"d3", "/", "foo">>, upgraded)
    /\ req.resp.scope =
         PathScope(<<"/", "upgrades", "/", "d3", "/", "foo", "/", "api", "/", "v1", "/", "bar">>)

\* C2: a request whose element after the name element is not "api" (or that has
\* no such element) is never rewritten: the scope is passed as it came, and it is
\* forwarded unless the name is deactivated.
C2_NonApiUnchanged ==
    ( /\ req.handled /\ req.scope.has
      /\ LET el == Split(req.scope.path) IN Len(el) < 3 \/ el[3] # API )
    => /\ req.resp.scope = req.scope
       /\ (Named /\ ~InList(Split(req.scope.path)[2], deactivated))
             => req.resp.status = "forwarded"

C2_Witness ==
    /\ req.handled
    /\ req.scope = PathScope(<<"/", "foo", "/", "v1", "/", "bar">>)
    /\ InList(<<"d1", "/", "foo">>, upgraded)
    /\ req.resp.status = "forwarded"
    /\ req.resp.scope = req.scope

\* C3: a request whose name element is in the deactivated list gets the not-found
\* response with its message and is not forwarded, api call with an upgraded
\* entry or not.
C3_DeactivatedBlocked ==
    (Named /\ InList(Split(req.scope.path)[2], deactivated))
    => /\ req.resp.status = "not_found"
       /\ req.resp.detail # <<>>
       /\ req.resp.scope = req.scope

C3_Witness ==
    /\ req.handled
    /\ req.scope = PathScope(<<"/", "bar", "/", "api", "/", "v1">>)
    /\ InList(BAR, deactivated)
    /\ InList(<<"d1", "/", "bar">>, upgraded)
    /\ req.resp.status = "not_found"

\* the upgraded list has at most one entry per extension
OneEntryPerExtension ==
    \A x \in ExtIds :
        Cardinality({i \in 1..Len(upgraded) : IsEntryFor(upgraded[i], x)}) <= 1

\* what a registration of id with hash h leaves: h/id last, no other entry for id,
\* the entries of the other extensions as they were
RegisteredLast(id, h) ==
    /\ Len(upgraded') >= 1
    /\ upgraded'[Len(upgraded')] = Entry(h, id)
    /\ \A i \in 1..(Len(upgraded') - 1) : ~IsEntryFor(upgraded'[i], id)
    /\ OthersOf(upgraded', id) = OthersOf(upgraded, id)

\* C4: the upgraded list always has at most one entry per extension, and each
\* nofiy_upgrade of X with hash H leaves H/X as the last element and the only
\* entry of X, with the entries of the other extensions kept in their order.
C4_UpgradedUnique ==
    /\ []OneEntryPerExtension
    /\ [][\A id \in ExtIds, rel \in Releases \cup {NoRelease} :
             RegisterUpgrade(id, rel) => RegisteredLast(id, HashOf(rel))]_vars

C4_Witness ==
    upgraded = << <<"d1", "/", "bar">>, <<"d1", "/", "my", "foo">>, <<"d3", "/", "foo">> >>

----------------------------------------------------------------------------
(* Properties of an install attempt *)

\* the attempts under way or just ended
Active == {p \in Workers : att[p].pc # "idle"}

\* C5: the upgraded list is as it was when the attempt started until the attempt
\* is done, so also when it failed in mark-installed or publish; when the attempt
\* is done its entry is registered and the publish step has put the complete,
\* marked copy of the upgrade directory in the default location.
C5_RegisterAfterPublish ==
    \A p \in Active :
        /\ att[p].pc # "done" => upgraded = att[p].snapUps
        /\ att[p].pc = "done" =>
              /\ InList(Entry(HashOf(att[p].rel), att[p].id), upgraded)
              /\ extDir[att[p].id] = upgDir[MyUpg(p)]
              /\ extDir[att[p].id].exists
              /\ extDir[att[p].id].whole
              /\ extDir[att[p].id].inst

C5_Witness ==
    \E p \in Active :
        /\ att[p].pc = "failed"
        /\ att[p].err = "publish"
        /\ att[p].id = FOO
        /\ upgraded = << <<"d1", "/", "foo">> >>
        /\ HashOf(att[p].rel) = <<"d3">>

\* the download step of the attempt ended without raising
Downloaded(p) == att[p].fetch = "ok" /\ att[p].err \notin {"fetch", "integrity"}

\* C6: with a declared digest D the download step succeeds exactly when the
\* digest of the downloaded archive is D, and a mismatch ends the attempt with
\* the integrity error; with no declared digest every downloaded archive passes.
C6_VerifyIffMatch ==
    \A p \in Active :
        att[p].fetch = "ok" =>
            /\ att[p].rel.hash # NoHash =>
                  /\ Downloaded(p) <=> Sha256(att[p].data) = att[p].rel.hash
                  /\ Sha256(att[p].data) # att[p].rel.hash =>
                        att[p].pc = "failed" /\ att[p].err = "integrity"
            /\ att[p].rel.hash = NoHash => Downloaded(p)

C6_Witness ==
    \E p \in Active :
        /\ att[p].fetch = "ok"
        /\ att[p].rel.hash = <<"d1">>
        /\ att[p].data = <<"c2">>
        /\ att[p].err = "integrity"

\* C7: after an attempt that failed with the integrity error the cached archive
\* of the extension does not exist, and every upgrade directory and every
\* default-location copy is as it was when the attempt started.
C7_NoResidueOnMismatch ==
    \A p \in Active :
        (att[p].pc = "failed" /\ att[p].err = "integrity") =>
            /\ ~zipFile[att[p].id].exists
            /\ upgDir = att[p].snapUpg
            /\ extDir = att[p].snapExt

C7_Witness ==
    \E p \in Active :
        /\ att[p].pc = "failed"
        /\ att[p].err = "integrity"
        /\ att[p].snapZip[att[p].id].exists
        /\ att[p].snapUpg[MyUpg(p)].exists
        /\ ~zipFile[att[p].id].exists

\* C8: an attempt on an extension that had a default-location copy, and that
\* failed at whatever step, leaves that copy as it was when the attempt started.
C8_ActiveCopyIntact ==
    \A p \in Active :
        (att[p].pc = "failed" /\ att[p].snapExt[att[p].id].exists) =>
            extDir[att[p].id] = att[p].snapExt[att[p].id]

\* C9: an attempt that failed in download, verify or extract leaves the default
\* location and the upgrade directory of the extension as they were when the
\* attempt started.
C9_EarlyFailureNoTrace ==
    \A p \in Active :
        (att[p].pc = "failed" /\ att[p].err \in {"fetch", "integrity", "extract"}) =>
            /\ extDir[att[p].id] = att[p].snapExt[att[p].id]
            /\ upgDir[MyUpg(p)] = att[p].snapUpg[MyUpg(p)]

\* C10: when the fetch of the archive fails the attempt ends with the fetch
\* error, and the default-location copies, the upgrade directories, the upgraded
\* list and the archives of the other extensions are as they were.
C10_FetchFailureContained ==
    \A p \in Active :
        att[p].fetch \in {"urlopen_fails", "read_fails"} =>
            /\ att[p].pc = "failed"
            /\ att[p].err = "fetch"
            /\ extDir = att[p].snapExt
            /\ upgDir = att[p].snapUpg
            /\ upgraded = att[p].snapUps
            /\ \A i \in InstallIds \ {att[p].id} : zipFile[i] = att[p].snapZip[i]

C10_Witness ==
    \E p \in Active :
        /\ att[p].fetch = "read_fails"
        /\ att[p].pc = "failed"
        /\ att[p].snapZip[att[p].id].exists
        /\ zipFile[att[p].id] = FileOf(<<>>)
        /\ att[p].snapExt[att[p].id].inst

----------------------------------------------------------------------------
(* Properties of repeated installs, of the hash and of uninstall *)

\* the tree a complete install of archive content c leaves
InstalledTree(c) ==
    [exists |-> TRUE, code |-> c, top |-> "id", inst |-> TRUE, whole |-> TRUE]

\* when the attempt started, the same extension had just been installed from the
\* same release with the archive content this attempt downloaded: archive, upgrade
\* directory and default location held that install, and its entry was the last
\* one registered
SameInstallBefore(p) ==
    /\ att[p].fetch = "ok"
    /\ att[p].snapZip[att[p].id] = FileOf(att[p].data)
    /\ att[p].snapUpg[MyUpg(p)] = InstalledTree(att[p].data)
    /\ att[p].snapExt[att[p].id] = InstalledTree(att[p].data)
    /\ Len(att[p].snapUps) >= 1
    /\ att[p].snapUps[Len(att[p].snapUps)] = Entry(HashOf(att[p].rel), att[p].id)

\* C11: a complete install of an extension and release, run right after a
\* complete install of the same extension and release, ends in the state it
\* started from: same archive, same upgrade directories, same default-location
\* copies, same upgraded list.
C11_InstallIdempotent ==
    \A p \in Active :
        (att[p].pc = "done" /\ SameInstallBefore(p)) =>
            /\ zipFile = att[p].snapZip
            /\ upgDir = att[p].snapUpg
            /\ extDir = att[p].snapExt
            /\ upgraded = att[p].snapUps

C11_Witness ==
    \E p \in Active :
        /\ att[p].pc = "done"
        /\ SameInstallBefore(p)
        /\ att[p].id = FOO
        /\ upgraded = << <<"d3", "/", "foo">> >>

\* the hash part of the entry a registration leaves last in the upgraded list
RegisteredHash(id, h) ==
    /\ Len(upgraded') >= 1
    /\ upgraded'[Len(upgraded')] = h \o SL \o id

\* C12: the hash an extension is registered with is "not-installed" without an
\* installed release, the declared hash of the installed release when it has one,
\* and else the SHA-256 of its archive URL (the same for every extension with
\* that URL).
C12_HashDerivation ==
    [][\A id \in ExtIds, rel \in Releases \cup {NoRelease} :
          RegisterUpgrade(id, rel) =>
              /\ ~rel.present => RegisteredHash(id, <<"not-installed">>)
              /\ (rel.present /\ rel.hash # <<>>) => RegisteredHash(id, rel.hash)
              /\ (rel.present /\ rel.hash = <<>>) =>
                    RegisteredHash(id, Sha256(rel.archive))]_vars

C12_Witness ==
    upgraded = << <<"not-installed", "/", "my", "foo">>,
                  <<"d3", "/", "bar">>,
                  <<"d1", "/", "foo">> >>

\* C13: an install whose archive content differs from the content an earlier
\* complete install of the same extension left in an upgrade directory gets
\* another hash, so another upgrade directory.
C13_HashDistinguishesCode ==
    \A p \in Active :
        Downloaded(p) =>
            \A h \in Hashes, c \in Contents \ {att[p].data} :
                att[p].snapUpg[<<att[p].id, h>>] = InstalledTree(c)
                => h # HashOf(att[p].rel)

\* what clean_extension_files of id with release rel leaves
Uninstalled(id, rel) ==
    /\ ~zipFile'[id].exists
    /\ ~extDir'[id].exists
    /\ ~upgDir'[<<id, HashOf(rel)>>].exists
    /\ \A i \in InstallIds \ {id} : zipFile'[i] = zipFile[i] /\ extDir'[i] = extDir[i]
    /\ \A d \in UpgradeDirs \ {<<id, HashOf(rel)>>} : upgDir'[d] = upgDir[d]
    /\ upgraded' = upgraded

\* an api request for an extension with a registered entry is rewritten to the
\* entry's location, whether that upgrade directory exists or not
RoutedByEntry ==
    \A id \in InstallIds, h \in Hashes :
        ( /\ req.handled
          /\ req.scope = PathScope(SL \o id \o <<"/", "api", "/", "v1">>)
          /\ ~InList(id, deactivated)
          /\ InList(Entry(h, id), upgraded) )
        => req.resp.scope =
             PathScope(<<"/", "upgrades", "/">> \o h \o SL \o id \o <<"/", "api", "/", "v1">>)

\* C14: clean_extension_files of X removes X's archive, default-location copy and
\* upgrade directory and nothing else, and leaves the upgraded list as it is; api
\* requests for X are still rewritten to the entry's location afterwards.
C14_UninstallFrame ==
    /\ [][\A id \in InstallIds, rel \in Releases :
             CleanExtensionFiles(id, rel) => Uninstalled(id, rel)]_vars
    /\ []RoutedByEntry

C14_Witness ==
    /\ req.handled
    /\ req.scope = PathScope(<<"/", "foo", "/", "api", "/", "v1">>)
    /\ req.resp.status = "forwarded"
    /\ req.resp.scope =
         PathScope(<<"/", "upgrades", "/", "d3", "/", "foo", "/", "api", "/", "v1">>)
    /\ ~upgDir[<<FOO, <<"d3">>>>].exists
    /\ ~extDir[FOO].exists
    /\ started = 1

----------------------------------------------------------------------------
(* Properties of the catalog calls *)

Listed == answer.op = "get_installable_extensions"

NoDuplicateIds(exts) ==
    \A i, j \in 1..Len(exts) : exts[i].id = exts[j].id => i = j

\* every "extensions" entry of every fetched manifest has the keys from_manifest reads
AllComplete(cat) ==
    \A i \in 1..Len(cat.docs) :
        \A j \in 1..Len(cat.docs[i].extensions) :
            ~FromManifestRaises(ExtensionEntry(ManifestUrls[i], cat.docs[i].extensions[j]))

\* what one fetched manifest declares, repos first: each declaration with the
\* extension it stands for
DeclaredIn(manifest, url) ==
    [j \in 1..Len(manifest.repos) |->
        [kind |-> "repo",
         ext |-> FromRepo("ok", manifest.repos[j].id, manifest.repos[j].organisation,
                          manifest.repos[j].repository)]]
    \o
    [j \in 1..Len(manifest.extensions) |->
        [kind |-> "extension",
         ext |-> FromManifest(ExtensionEntry(url, manifest.extensions[j]))]]

\* the declarations of the manifests from the i-th on, in processing order
RECURSIVE Declared(_, _)
Declared(cat, i) ==
    IF i > Len(cat.docs)
    THEN <<>>
    ELSE (IF cat.docs[i].ok THEN DeclaredIn(cat.docs[i], ManifestUrls[i]) ELSE <<>>)
         \o Declared(cat, i + 1)

\* the declarations that give an extension: every "extensions" entry, and the
\* "repos" entries when GitHub answers
Yielding(cat) ==
    SelectSeq(Declared(cat, 1), LAMBDA d : d.kind = "extension" \/ cat.github = "ok")

\* the extensions of the declarations, each identifier at its first declaration only
RECURSIVE FirstOccurrences(_, _)
FirstOccurrences(decls, i) ==
    IF i > Len(decls)
    THEN <<>>
    ELSE (IF \E m \in 1..(i - 1) : decls[m].ext.id = decls[i].ext.id
          THEN <<>>
          ELSE <<decls[i].ext>>)
         \o FirstOccurrences(decls, i + 1)

WellFormed(cat, i) ==
    /\ cat.docs[i].ok
    /\ \A j \in 1..Len(cat.docs[i].extensions) :
          ~FromManifestRaises(ExtensionEntry(ManifestUrls[i], cat.docs[i].extensions[j]))

ListedIds == {answer.extensions[k].id : k \in 1..Len(answer.extensions)}

\* C16 as stated: whatever manifests fail or are malformed, the result of
\* get_installable_extensions has an entry for every identifier a well-formed
\* manifest declares, by a repo entry or by an extension entry.
C16_DeclaredIsListed ==
    Listed =>
        \A i \in 1..Len(catalogs.docs) :
            WellFormed(catalogs, i) =>
                LET decls == DeclaredIn(catalogs.docs[i], ManifestUrls[i])
                IN \A j \in 1..Len(decls) : decls[j].ext.id \in ListedIds

\* C16, amended: whatever manifests fail or are malformed, wherever they sit in
\* the list, get_installable_extensions returns a result with an entry for every
\* identifier a well-formed manifest declares by an extension entry, and by a
\* repo entry when the GitHub fetch of the repository succeeds.
C16_BadCatalogSkipped ==
    Listed =>
        \A i \in 1..Len(catalogs.docs) :
            WellFormed(catalogs, i) =>
                LET decls == DeclaredIn(catalogs.docs[i], ManifestUrls[i])
                IN \A j \in 1..Len(decls) :
                      (decls[j].kind = "extension" \/ catalogs.github = "ok")
                      => decls[j].ext.id \in ListedIds

\* the first manifest has an incomplete entry, the second declares foo by a
\* repo entry and bar by an extension entry: both are listed
C16_Witness ==
    /\ Listed
    /\ Len(catalogs.docs) = 2
    /\ catalogs.docs[1].ok
    /\ catalogs.docs[1].extensions = <<[id |-> BAR, keys |-> EntryKeys \ {"name"}]>>
    /\ catalogs.docs[2].ok
    /\ Len(catalogs.docs[2].repos) = 1
    /\ catalogs.docs[2].extensions = <<[id |-> BAR, keys |-> EntryKeys]>>
    /\ ListedIds = {FOO, BAR}

Resolved == answer.op = "get_extension_release"

\* the releases the fetched manifests declare for ext_id: one per extension entry
\* with that identifier, under the manifest's URL, and the releases GitHub lists
\* for each repo entry with that identifier, under "org/repo"
DeclaredReleases(cat, ext_id) ==
    LET fetched == {i \in 1..Len(cat.docs) : cat.docs[i].ok}
    IN {ExtensionRelease(<<"archive-of-">> \o ext_id, ManifestUrls[i], <<>>) :
            i \in {i \in fetched :
                      \E j \in 1..Len(cat.docs[i].extensions) :
                          cat.docs[i].extensions[j].id = ext_id}}
       \cup
       {ExtensionRelease(g.zipball_url, ORG \o SL \o REPO, <<>>) :
            g \in {g \in {GithubReleases[n] : n \in 1..Len(GithubReleases)} :
                      /\ cat.github = "ok"
                      /\ \E i \in fetched :
                            \E j \in 1..Len(cat.docs[i].repos) :
                                cat.docs[i].repos[j].id = ext_id}}

\* C17: get_extension_release(ext_id, source_repo, archive) returns a release
\* exactly when get_extension_releases lists one for ext_id with that source and
\* that archive, and the release returned has that source and archive and is one
\* the catalogs declare for ext_id; otherwise it returns none.
C17_ExactMatch ==
    Resolved =>
        LET all_releases == GetExtensionReleases(catalogs, answer.ext_id)
        IN /\ answer.release.present <=>
                 \E n \in 1..Len(all_releases) :
                     /\ all_releases[n].archive = answer.archive
                     /\ all_releases[n].source_repo = answer.source_repo
           /\ answer.release.present =>
                 /\ answer.release.archive = answer.archive
                 /\ answer.release.source_repo = answer.source_repo
                 /\ answer.release \in DeclaredReleases(catalogs, answer.ext_id)
           /\ answer.release \notin DeclaredReleases(catalogs, answer.ext_id)
                 => answer.release = NoExtensionRelease

\* the release z2 of the repository is resolved for foo under "org/repo" while
\* a manifest also declares foo inline
C17_Witness ==
    /\ Resolved
    /\ answer.ext_id = FOO
    /\ answer.source_repo = <<"org", "/", "repo">>
    /\ answer.release = ExtensionRelease(<<"z2">>, <<"org", "/", "repo">>, <<>>)
    /\ \E i \in 1..Len(catalogs.docs) :
          catalogs.docs[i].extensions = <<[id |-> FOO, keys |-> EntryKeys]>>

----------------------------------------------------------------------------
(* Properties of the registry *)

Enumerated == listing.op = "extensions"

ListedCodes == {listing.output[k].code : k \in 1..Len(listing.output)}

NonDisabledFolders ==
    {registry.folders[k] : k \in {k \in 1..Len(registry.folders) :
                                     ~InList(registry.folders[k], registry.disabled)}}

C19_InvalidStillListed ==
    /\ (Enumerated /\ ~InList(ALL, registry.disabled)) =>
          /\ ~listing.raised
          /\ \A f \in NonDisabledFolders :
                \E k \in 1..Len(listing.output) :
                    /\ listing.output[k].code = f
                    /\ listing.output[k].is_valid = (registry.config[f] # "unreadable")
                    /\ listing.output[k].is_admin_only =
                          ( /\ registry.config[f] # "unreadable"
                            /\ InList(f, registry.admin_only) )
    /\ (listing.op = "get_valid_extensions" /\ ~InList(ALL, registry.disabled)) =>
          /\ ~listing.raised
          /\ ListedCodes = {f \in NonDisabledFolders : registry.config[f] # "unreadable"}

----------------------------------------------------------------------------
(* Properties of overlapping installs *)

\* the attempt has begun extract_archive and has not finished nofiy_upgrade
InSteps3To6(p) ==
    att[p].pc \in {"extractall", "rename", "mark", "rmtree_ext", "copytree", "nofiy"}

\* C20: of the install attempts for one extension, at most one at a time is
\* between the start of extract (step 3) and the end of register-upgrade (step 6).
C20_OneInstallInFlight ==
    \A p, q \in Workers :
        (p # q /\ att[p].id = att[q].id) => ~(InSteps3To6(p) /\ InSteps3To6(q))

----------------------------------------------------------------------------
(* Properties of the router under any request, and of the sentinel hash *)

\* C22: whatever the scope - no path, the empty path, "/", a path without a
\* leading slash, a path of one segment - the middleware either forwards to the
\* application or answers not-found, never fails, and forwards a path without an
\* extension name unchanged.
C22_RouterTotal ==
    req.handled =>
        /\ req.resp.status \in {"forwarded", "not_found"}
        /\ (req.scope.has /\ Len(Split(req.scope.path)) < 2) =>
              (req.resp.status = "forwarded" /\ req.resp.scope = req.scope)

\* C26: the upgraded list never holds an entry whose hash part is "not-installed".
C26_NoSentinelEntry ==
    \A i \in 1..Len(upgraded) : ~StartsWith(upgraded[i], NOT_INSTALLED \o SL)

\* C24: when GitHub answers, the latest_release of every extension that
\* get_installable_extensions builds from a repo entry is resolved by
\* get_extension_release for the same identifier, source_repo and archive.
C24_AdvertisedResolves ==
    Listed =>
        \A k \in 1..Len(answer.extensions) :
            LET ext == answer.extensions[k]
            IN ext.latest_release.present =>
                  GetExtensionRelease(catalogs, ext.id, ext.latest_release.source_repo,
                                      ext.latest_release.archive).present

----------------------------------------------------------------------------
(* The installed marker *)

\* C27: the marker is written to the staged descriptor before the copy, so when
\* extract_archive has returned for X, and when the install of X has then
\* succeeded, the descriptor in X's default location records
\* is_installed and has_installed_version is true; for a pre-bundled copy, and
\* when the default location does not exist, has_installed_version is false.
C27_MarkerReachesActiveCopy ==
    /\ \A p \in Workers :
          att[p].pc \in {"nofiy", "done"} =>
              /\ extDir[att[p].id].inst
              /\ HasInstalledVersion(extDir[att[p].id])
    /\ \A i \in InstallIds :
          extDir[i] \in {Bundled, NoDir} => ~HasInstalledVersion(extDir[i])

\* an install of foo over its pre-bundled copy has succeeded and foo is installed,
\* while bar, which has no directory, is not
C27_Witness ==
    \E p \in Workers :
        /\ att[p].pc = "done"
        /\ att[p].id = FOO
        /\ att[p].snapExt[FOO] = Bundled
        /\ HasInstalledVersion(extDir[FOO])
        /\ extDir[BAR] = NoDir
        /\ ~HasInstalledVersion(extDir[BAR])

----------------------------------------------------------------------------
(* Routing after a sequence of installs *)

\* the entries of the list that belong to extension id, in order
EntriesOf(list, id) == SelectSeq(list, LAMBDA e : IsEntryFor(e, id))

\* the api path of extension id, and the same path under the location of hash h
ApiPath(id) == SL \o id \o SL \o API \o SL \o V1

UpgradedApiPath(h, id) == SL \o <<"upgrades">> \o SL \o h \o SL \o id \o SL \o API \o SL \o V1

\* C23: the list starts empty and changes only when an install registers; the
\* registration of X with hash H makes H/X the one entry of X and leaves the
\* entries of the other extensions; an api request for X is rewritten to the
\* location of X's one entry, and forwarded unchanged when X has none. So after
\* installs with H1..Hn the request goes to Hn, and a request for an extension
\* never installed is forwarded unchanged.
C23_RoutingFollowsLatest ==
    /\ [](started = 0 => upgraded = <<>>)
    /\ [][\A p \in Workers :
             NofiyStep(p) =>
                 /\ EntriesOf(upgraded', att[p].id) =
                        <<Entry(HashOf(att[p].rel), att[p].id)>>
                 /\ OthersOf(upgraded', att[p].id) = OthersOf(upgraded, att[p].id)]_vars
    /\ [][upgraded' # upgraded => \E p \in Workers : NofiyStep(p)]_vars
    /\ [](\A x \in InstallIds :
             ( /\ req.handled
               /\ req.scope = PathScope(ApiPath(x))
               /\ ~InList(x, deactivated) )
             => /\ req.resp.status = "forwarded"
                /\ EntriesOf(upgraded, x) = <<>> => req.resp.scope = req.scope
                /\ \A h \in EntryHashes :
                      EntriesOf(upgraded, x) = <<Entry(h, x)>> =>
                          req.resp.scope = PathScope(UpgradedApiPath(h, x)))

\* foo was registered with one hash, then installed again with another; the list
\* holds the second only, a request for foo was rewritten to it, and bar, never
\* installed, has no entry
C23_Witness ==
    \E p \in Workers, h1, hn \in Hashes :
        /\ h1 # hn
        /\ att[p].pc = "done"
        /\ att[p].id = FOO
        /\ att[p].snapUps = <<Entry(h1, FOO)>>
        /\ upgraded = <<Entry(hn, FOO)>>
        /\ EntriesOf(upgraded, BAR) = <<>>
        /\ req.handled
        /\ req.scope = PathScope(ApiPath(FOO))
        /\ req.resp.scope = PathScope(UpgradedApiPath(hn, FOO))

----------------------------------------------------------------------------
(* The upgraded list under concurrent calls *)

\* the worker is inside nofiy_upgrade for x, or has just left it, and x had the
\* entry hold/x when the call read the list
Reregistering(p, x, hold) ==
    /\ att[p].pc \in {"filtered", "done"}
    /\ att[p].id = x
    /\ EntriesOf(att[p].snapUps, x) = <<Entry(hold, x)>>

\* C21: while nofiy_upgrade re-registers X, which had the entry Hold/X, with the
\* hash Hnew, the list holds exactly one entry of X, Hold/X or Hnew/X, and an api
\* request for X handled meanwhile is rewritten with Hold/X or with Hnew/X.
C21_NoTornRead ==
    \A p \in Workers, x \in InstallIds, hold \in EntryHashes :
        Reregistering(p, x, hold) =>
            LET hnew == HashOf(att[p].rel) IN
            /\ EntriesOf(upgraded, x) \in {<<Entry(hold, x)>>, <<Entry(hnew, x)>>}
            /\ ( /\ req.handled
                 /\ req.scope = PathScope(ApiPath(x))
                 /\ ~InList(x, deactivated) )
               => /\ req.resp.status = "forwarded"
                  /\ req.resp.scope \in {PathScope(UpgradedApiPath(hold, x)),
                                         PathScope(UpgradedApiPath(hnew, x))}

\* the call for foo has built its filtered copy and has not assigned yet; a
\* request for foo handled at this point was rewritten with the old entry
C21_Witness ==
    \E p \in Workers, hold \in EntryHashes :
        /\ att[p].pc = "filtered"
        /\ Reregistering(p, FOO, hold)
        /\ HashOf(att[p].rel) # hold
        /\ req.handled
        /\ req.scope = PathScope(ApiPath(FOO))
        /\ req.resp.scope = PathScope(UpgradedApiPath(hold, FOO))

\* C25: when nofiy_upgrade has run for two different extensions X and Y in calls
\* that overlap, and both calls have completed, the list holds X's entry and Y's
\* entry.
C25_NoLostRegistration ==
    \A p, q \in Workers :
        ( /\ p # q
          /\ att[p].pc = "done" /\ att[q].pc = "done"
          /\ att[p].id # att[q].id )
        => /\ InList(Entry(HashOf(att[p].rel), att[p].id), upgraded)
           /\ InList(Entry(HashOf(att[q].rel), att[q].id), upgraded)

====
